---- MODULE Spec2Model ----
(***************************************************************************)
(* Model of dotlore's persistence layer: the two LanceDB tables managed by *)
(* DotLoreDB (src/dotlore/core/db.py) and the YAML configuration file      *)
(* managed by src/dotlore/core/config.py.                                  *)
(*                                                                         *)
(* A Python string is a TLA+ string.  Where the code works on the          *)
(* characters of a string (the source id pasted into a SQL filter, the     *)
(* config key split on '.', `in` on a string value, int to text and back)  *)
(* the model works on Chars(s), the sequence of its characters, and StrOf  *)
(* turns a sequence of characters back into the string.                    *)
(***************************************************************************)
EXTENDS Integers, Sequences, FiniteSets, Bags, TLC

VARIABLES
    sources,         \* rows of the "sources" table, in insertion order
    context,         \* rows of the "context" table, in insertion order
    file,            \* .lore/config.yaml: absent, or its YAML content
    DEFAULT_CONFIG,  \* the module-level dict of config.py (a mutable object)
    last,            \* the last call: its name, its arguments and what it returned
    calls            \* per caller: the call it is in, and how far the call has got

vars == <<sources, context, file, DEFAULT_CONFIG, last, calls>>

----------------------------------------------------------------------------
(* Bounds *)

MaxSources == 2      \* rows the sources table may hold
MaxChunks == 2       \* rows the context table may hold

----------------------------------------------------------------------------
(* Python values.  None, str, int and dict are told apart by the field t. *)
(* The metadata column is a str too; the model keeps it as the tokens a   *)
(* JSON reader finds in it.                                               *)

None == [t |-> "None"]
Str(s) == [t |-> "str", s |-> s]
PyInt(n) == [t |-> "int", n |-> n]
Dict(m) == [t |-> "dict", m |-> m]
\* A str that holds JSON or other text, known by its sequence of tokens.
Text(toks) == [t |-> "text", toks |-> toks]
EmptyDict == Dict(<<>>)

\* What a call did: returned v, or raised the exception exc.
Return(v) == [raised |-> FALSE, val |-> v]
Raise(exc) == [raised |-> TRUE, exc |-> exc]

\* Python truthiness of a value (`if not config`, `if source_info.get(..)`).
Truthy(v) ==
    CASE v.t = "None" -> FALSE
      [] v.t = "str"  -> v.s # ""
      [] v.t = "text" -> v.toks # <<>>
      [] v.t = "int"  -> v.n # 0
      [] v.t = "dict" -> DOMAIN v.m # {}
      [] OTHER        -> TRUE

----------------------------------------------------------------------------
(* The strings of the model and their characters. *)

StringTable ==
    ("" :> <<>>) @@
    ("a" :> <<"a">>) @@
    ("b" :> <<"b">>) @@
    ("a'" :> <<"a", "'">>) @@
    ("a''" :> <<"a", "'", "'">>) @@
    ("k" :> <<"k">>) @@
    ("v" :> <<"v">>) @@
    ("x" :> <<"x">>) @@
    ("1" :> <<"1">>) @@
    ("7" :> <<"7">>) @@
    ("embedding" :> <<"e", "m", "b", "e", "d", "d", "i", "n", "g">>) @@
    ("provider" :> <<"p", "r", "o", "v", "i", "d", "e", "r">>) @@
    ("model" :> <<"m", "o", "d", "e", "l">>) @@
    ("reranking" :> <<"r", "e", "r", "a", "n", "k", "i", "n", "g">>) @@
    ("method" :> <<"m", "e", "t", "h", "o", "d">>) @@
    ("retrieval" :> <<"r", "e", "t", "r", "i", "e", "v", "a", "l">>) @@
    ("max_context_length" :> <<"m", "a", "x", "_", "c", "o", "n", "t", "e", "x", "t", "_", "l", "e", "n", "g", "t", "h">>) @@
    ("chunk_size" :> <<"c", "h", "u", "n", "k", "_", "s", "i", "z", "e">>) @@
    ("chunk_overlap" :> <<"c", "h", "u", "n", "k", "_", "o", "v", "e", "r", "l", "a", "p">>) @@
    ("api_keys" :> <<"a", "p", "i", "_", "k", "e", "y", "s">>) @@
    ("openai" :> <<"o", "p", "e", "n", "a", "i">>) @@
    ("anthropic" :> <<"a", "n", "t", "h", "r", "o", "p", "i", "c">>) @@
    ("text-embedding-3-small" :> <<"t", "e", "x", "t", "-", "e", "m", "b", "e", "d", "d", "i", "n", "g", "-", "3", "-", "s", "m", "a", "l", "l">>) @@
    ("rrf" :> <<"r", "r", "f">>) @@
    ("${OPENAI_API_KEY}" :> <<"$", "{", "O", "P", "E", "N", "A", "I", "_", "A", "P", "I", "_", "K", "E", "Y", "}">>) @@
    ("${ANTHROPIC_API_KEY}" :> <<"$", "{", "A", "N", "T", "H", "R", "O", "P", "I", "C", "_", "A", "P", "I", "_", "K", "E", "Y", "}">>) @@
    ("4000" :> <<"4", "0", "0", "0">>) @@
    ("1000" :> <<"1", "0", "0", "0">>) @@
    ("200" :> <<"2", "0", "0">>) @@
    ("null" :> <<"n", "u", "l", "l">>) @@
    ("reranking.method" :> <<"r", "e", "r", "a", "n", "k", "i", "n", "g", ".", "m", "e", "t", "h", "o", "d">>) @@
    ("reranking.nope" :> <<"r", "e", "r", "a", "n", "k", "i", "n", "g", ".", "n", "o", "p", "e">>) @@
    ("retrieval.chunk_size.x" :> <<"r", "e", "t", "r", "i", "e", "v", "a", "l", ".", "c", "h", "u", "n", "k", "_", "s", "i", "z", "e", ".", "x">>) @@
    ("embedding.provider.open" :> <<"e", "m", "b", "e", "d", "d", "i", "n", "g", ".", "p", "r", "o", "v", "i", "d", "e", "r", ".", "o", "p", "e", "n">>) @@
    ("embedding.provider.x" :> <<"e", "m", "b", "e", "d", "d", "i", "n", "g", ".", "p", "r", "o", "v", "i", "d", "e", "r", ".", "x">>) @@
    ("new.level" :> <<"n", "e", "w", ".", "l", "e", "v", "e", "l">>) @@
    ("open" :> <<"o", "p", "e", "n">>) @@
    ("new" :> <<"n", "e", "w">>) @@
    ("level" :> <<"l", "e", "v", "e", "l">>) @@
    ("nope" :> <<"n", "o", "p", "e">>) @@
    ("linear" :> <<"l", "i", "n", "e", "a", "r">>)

Chars(s) == StringTable[s]
StrOf(cs) == CHOOSE s \in DOMAIN StringTable : StringTable[s] = cs

----------------------------------------------------------------------------
(* The filter f"source_id = '{source_id}'" as the SQL engine reads it.     *)
(* The id is pasted between two quote characters.  Inside a SQL string     *)
(* literal two quotes in a row stand for one quote character and one quote *)
(* alone ends the literal; whatever follows the literal in the clause is   *)
(* parsed as SQL.  The ids of the model are made of letters and quotes, so *)
(* text after the literal is never a valid continuation of the clause.     *)

Quote == "'"

SqlError == [ok |-> FALSE]
SqlLiteral(s) == [ok |-> TRUE, s |-> s]

\* Lex text t from position i, inside a literal whose characters so far are acc.
RECURSIVE LexLiteral(_, _, _)
LexLiteral(t, i, acc) ==
    IF i > Len(t) THEN SqlError                       \* unterminated literal
    ELSE IF t[i] # Quote THEN LexLiteral(t, i + 1, Append(acc, t[i]))
    ELSE IF i + 1 <= Len(t) /\ t[i + 1] = Quote
         THEN LexLiteral(t, i + 2, Append(acc, Quote))  \* '' is one quote
    ELSE IF i = Len(t) THEN SqlLiteral(StrOf(acc))          \* closing quote, end of clause
    ELSE SqlError                                     \* text after the literal

\* The literal that source_id is compared with in "source_id = '<id>'".
SourceIdFilter(id) == LexLiteral(<<Quote>> \o Chars(id) \o <<Quote>>, 2, <<>>)

\* Rows of a table that a parsed filter selects / keeps.
Matching(table, lit) == SelectSeq(table, LAMBDA r : r.source_id = lit.s)
NotMatching(table, lit) == SelectSeq(table, LAMBDA r : r.source_id # lit.s)

----------------------------------------------------------------------------
(* json.dumps of a metadata dict and json.loads of a stored string.        *)
(* A metadata dict is a function from keys to string values; a key is a    *)
(* Python str or a Python int.  The JSON text is a sequence of tokens.     *)

Digits == <<"0", "1", "2", "3", "4", "5", "6", "7", "8", "9">>
IsDigit(c) == \E d \in 1..10 : Digits[d] = c

\* str(n) for n >= 0
RECURSIVE IntToStr(_)
IntToStr(n) ==
    IF n < 10 THEN <<Digits[n + 1]>>
    ELSE Append(IntToStr(n \div 10), Digits[(n % 10) + 1])

\* A JSON string token: the characters between double quotes.
JsonString(s) == [tok |-> "string", s |-> s]
JsonPunct(p) == [tok |-> "punct", s |-> p]
JsonText(s) == [tok |-> "text", s |-> s]      \* characters that are no JSON token

\* json.dumps writes every key as a JSON string: an int key becomes its digits.
JsonKey(k) == IF k.t = "int" THEN StrOf(IntToStr(k.n)) ELSE k.s

\* The keys of d in a fixed order (dict iteration order).
RECURSIVE KeySeq(_)
KeySeq(S) ==
    IF S = {} THEN <<>>
    ELSE LET k == CHOOSE x \in S : TRUE IN <<k>> \o KeySeq(S \ {k})

RECURSIVE DumpItems(_, _)
DumpItems(d, ks) ==
    IF ks = <<>> THEN <<>>
    ELSE <<JsonString(JsonKey(Head(ks))), JsonPunct(":"), JsonString(d[Head(ks)].s)>>
         \o (IF Len(ks) > 1 THEN <<JsonPunct(",")>> ELSE <<>>)
         \o DumpItems(d, Tail(ks))

json_dumps(d) ==
    <<JsonPunct("{")>> \o DumpItems(d, KeySeq(DOMAIN d)) \o <<JsonPunct("}")>>

JsonError == [ok |-> FALSE]
JsonValue(v) == [ok |-> TRUE, v |-> v]

\* The members of a JSON object from token i on; acc maps the keys read so far.
RECURSIVE ParseItems(_, _, _)
ParseItems(t, i, acc) ==
    IF i + 3 > Len(t) THEN JsonError
    ELSE IF t[i].tok = "string" /\ t[i + 1] = JsonPunct(":") /\ t[i + 2].tok = "string"
         THEN LET key == Str(t[i].s)
                  acc2 == [k \in DOMAIN acc \cup {key} |->
                              IF k = key THEN Str(t[i + 2].s) ELSE acc[k]]
              IN IF t[i + 3] = JsonPunct("}")
                 THEN (IF i + 3 = Len(t) THEN JsonValue(Dict(acc2)) ELSE JsonError)
                 ELSE IF t[i + 3] = JsonPunct(",")
                      THEN ParseItems(t, i + 4, acc2)
                      ELSE JsonError
    ELSE JsonError

\* json.loads: JsonError stands for json.JSONDecodeError.
json_loads(t) ==
    IF t = <<>> THEN JsonError
    ELSE IF t = <<JsonPunct("{"), JsonPunct("}")>> THEN JsonValue(EmptyDict)
    ELSE IF t[1] = JsonPunct("{") THEN ParseItems(t, 2, <<>>)
    ELSE IF Len(t) = 1 /\ t[1].tok = "string"
         THEN JsonValue(Str(t[1].s))
    ELSE JsonError

----------------------------------------------------------------------------
(* The two tables.  A sources row keeps source_id, source_type and         *)
(* metadata of the schema of _ensure_tables; a context row keeps           *)
(* source_id, source_type and embedding (one number, compared by absolute  *)
(* difference).  The other columns are copied in and out unchanged and no  *)
(* operation reads them.                                                   *)

\* A stored row as the dict that to_dict() hands to the caller.
RowToDict(r) ==
    [source_id |-> r.source_id, source_type |-> r.source_type,
     metadata |-> Text(r.metadata)]

\* add_source: the table after the call, or the exception of a bad filter.
add_source(table, source_info) ==
    LET lit == SourceIdFilter(source_info.source_id)
    IN IF ~lit.ok THEN [raised |-> TRUE, exc |-> "ValueError", table |-> table]
       ELSE LET existing == Matching(table, lit)
                kept == IF Len(existing) > 0 THEN NotMatching(table, lit) ELSE table
                meta == IF source_info.metadata.t = "dict"
                        THEN json_dumps(source_info.metadata.m)
                        ELSE source_info.metadata.toks
                row == [source_id |-> source_info.source_id,
                        source_type |-> source_info.source_type,
                        metadata |-> meta]
            IN [raised |-> FALSE, table |-> Append(kept, row)]

\* add_chunks: the context table after the call.
add_chunks(table, chunks) == table \o chunks

\* remove_source: both tables after the call, or the exception of a bad filter.
remove_source(srcs, ctx, source_id) ==
    LET lit == SourceIdFilter(source_id)
    IN IF ~lit.ok
       THEN [raised |-> TRUE, exc |-> "ValueError", sources |-> srcs, context |-> ctx]
       ELSE [raised |-> FALSE,
             context |-> NotMatching(ctx, lit),
             sources |-> NotMatching(srcs, lit)]

list_sources(table) ==
    [t |-> "list", rows |-> [i \in 1..Len(table) |-> RowToDict(table[i])]]

get_source(table, source_id) ==
    LET lit == SourceIdFilter(source_id)
    IN IF ~lit.ok THEN Raise("ValueError")
       ELSE LET results == Matching(table, lit)
            IN IF Len(results) = 0 THEN Return(None)
               ELSE LET source_info == RowToDict(results[1])
                        decoded == json_loads(source_info.metadata.toks)
                    IN IF Truthy(source_info.metadata) /\ decoded.ok
                       THEN Return([t |-> "source",
                                    row |-> [source_info EXCEPT !.metadata = decoded.v]])
                       ELSE Return([t |-> "source", row |-> source_info])

\* The distinct source_type values of the table, in order of first appearance.
RECURSIVE Unique(_, _)
Unique(table, seen) ==
    IF table = <<>> THEN <<>>
    ELSE IF Head(table).source_type \in seen THEN Unique(Tail(table), seen)
    ELSE <<Head(table).source_type>>
         \o Unique(Tail(table), seen \cup {Head(table).source_type})

\* get_db_stats with the two tables mixed up in the counts.
get_db_stats_swapped(srcs, ctx) ==
    [t |-> "stats",
     chunks_count |-> Len(srcs),
     sources_count |-> Len(ctx),
     source_types |-> Unique(srcs, {})]

get_db_stats(srcs, ctx) ==
    [t |-> "stats",
     chunks_count |-> Len(ctx),
     sources_count |-> Len(srcs),
     source_types |-> Unique(srcs, {})]

----------------------------------------------------------------------------
\* DEFAULT_CONFIG as config.py defines it at import time.
DefaultConfig ==
    Dict(("embedding" :> Dict(("provider" :> Str("openai"))
                              @@ ("model" :> Str("text-embedding-3-small"))))
      @@ ("reranking" :> Dict("method" :> Str("rrf")))
      @@ ("retrieval" :> Dict(("max_context_length" :> PyInt(4000))
                              @@ ("chunk_size" :> PyInt(1000))
                              @@ ("chunk_overlap" :> PyInt(200))))
      @@ ("api_keys" :> Dict(("openai" :> Str("${OPENAI_API_KEY}"))
                             @@ ("anthropic" :> Str("${ANTHROPIC_API_KEY}")))))

----------------------------------------------------------------------------
(* YAML.  The content of the file is a YAML node: the empty stream, a      *)
(* mapping, or a scalar written plain or quoted.  yaml.dump writes a str   *)
(* plain unless a plain scalar of these characters would be read back as   *)
(* something else (all digits: an int; no characters or null: None);       *)
(* safe_load resolves a plain scalar of digits to an int and a plain null  *)
(* to None.  Mapping keys of the model are words and are written plain.    *)

YamlEmpty == [y |-> "empty"]
YamlMap(m) == [y |-> "map", m |-> m]
YamlScalar(style, text) == [y |-> "scalar", style |-> style, text |-> text]

AllDigits(s) == Len(s) > 0 /\ \A i \in 1..Len(s) : IsDigit(s[i])

DigitValue(c) == (CHOOSE d \in 1..10 : Digits[d] = c) - 1

\* int(s) for a string of digits
RECURSIVE StrToInt(_)
StrToInt(s) ==
    IF Len(s) = 1 THEN DigitValue(s[1])
    ELSE 10 * StrToInt(SubSeq(s, 1, Len(s) - 1)) + DigitValue(s[Len(s)])

RECURSIVE yaml_dump(_)
yaml_dump(v) ==
    CASE v.t = "dict" -> YamlMap([k \in DOMAIN v.m |-> yaml_dump(v.m[k])])
      [] v.t = "int"  -> YamlScalar("plain", StrOf(IntToStr(v.n)))
      [] v.t = "str"  -> IF AllDigits(Chars(v.s)) \/ v.s = "" \/ v.s = "null"
                         THEN YamlScalar("quoted", v.s)
                         ELSE YamlScalar("plain", v.s)
      [] OTHER        -> YamlScalar("plain", "null")

RECURSIVE yaml_safe_load(_)
yaml_safe_load(node) ==
    CASE node.y = "empty" -> None
      [] node.y = "map"   -> Dict([k \in DOMAIN node.m |-> yaml_safe_load(node.m[k])])
      [] OTHER            ->
            IF node.style = "quoted" THEN Str(node.text)
            ELSE IF AllDigits(Chars(node.text)) THEN PyInt(StrToInt(Chars(node.text)))
            ELSE IF node.text = "null" THEN None
            ELSE Str(node.text)

\* The file: absent, or present with a YAML content.
AbsentFile == [exists |-> FALSE]
FileOf(node) == [exists |-> TRUE, yaml |-> node]

load_config(f) == IF ~f.exists THEN None ELSE yaml_safe_load(f.yaml)

----------------------------------------------------------------------------
(* Python's `in`, indexing and item assignment on the values a             *)
(* configuration holds.  TypeError is what the interpreter raises for an   *)
(* operand of the wrong type.                                              *)

TypeError == [ok |-> FALSE]
Ok(v) == [ok |-> TRUE, v |-> v]

IsSubstr(p, s) ==
    \E i \in 0..(Len(s) - Len(p)) : SubSeq(s, i + 1, i + Len(p)) = p

\* part in value
Contains(value, part) ==
    CASE value.t = "dict" -> Ok(part \in DOMAIN value.m)
      [] value.t = "str"  -> Ok(IsSubstr(Chars(part), Chars(value.s)))
      [] OTHER            -> TypeError

\* value[part]  (only evaluated after `part in value` held)
GetItem(value, part) ==
    IF value.t = "dict" THEN Ok(value.m[part]) ELSE TypeError

\* value[part] = item
SetItem(value, part, item) ==
    IF value.t = "dict"
    THEN Ok(Dict([k \in DOMAIN value.m \cup {part} |->
                     IF k = part THEN item ELSE value.m[k]]))
    ELSE TypeError

\* key.split('.')
RECURSIVE SplitFrom(_, _, _)
SplitFrom(key, i, cur) ==
    IF i > Len(key) THEN <<StrOf(cur)>>
    ELSE IF key[i] = "." THEN <<StrOf(cur)>> \o SplitFrom(key, i + 1, <<>>)
    ELSE SplitFrom(key, i + 1, Append(cur, key[i]))

Split(key) == SplitFrom(Chars(key), 1, <<>>)

\* The argument key=None of get_config_value.
NoKey == [t |-> "None"]

\* The loop of get_config_value over the parts of the key.
RECURSIVE Walk(_, _)
Walk(value, parts) ==
    IF parts = <<>> THEN Return(value)
    ELSE LET has == Contains(value, Head(parts))
         IN IF ~has.ok THEN Raise("TypeError")
            ELSE IF has.v
                 THEN LET item == GetItem(value, Head(parts))
                      IN IF item.ok THEN Walk(item.v, Tail(parts))
                         ELSE Raise("TypeError")
                 ELSE Return(None)

get_config_value(f, key) ==
    LET config == load_config(f)
    IN IF ~Truthy(config) THEN Return(None)
       ELSE IF ~Truthy(key) THEN Return(config)
       ELSE Walk(config, Split(key.s))

\* The two loops of set_config_value on the object current: the object
\* after the assignments, or TypeError.
RECURSIVE Assign(_, _, _)
Assign(current, parts, value) ==
    IF Len(parts) = 1 THEN SetItem(current, parts[1], value)
    ELSE LET part == Head(parts)
             has == Contains(current, part)
         IN IF ~has.ok THEN TypeError
            ELSE LET made == IF has.v THEN Ok(current)
                             ELSE SetItem(current, part, EmptyDict)
                 IN IF ~made.ok THEN TypeError
                    ELSE LET child == GetItem(made.v, part)
                         IN IF ~child.ok THEN TypeError
                            ELSE LET res == Assign(child.v, Tail(parts), value)
                                 IN IF ~res.ok THEN TypeError
                                    ELSE SetItem(made.v, part, res.v)

\* set_config_value: what it returns, the file and DEFAULT_CONFIG after it.
set_config_value(f, defaults, key, value) ==
    LET loaded == load_config(f)
        useDefault == ~Truthy(loaded)            \* load_config() or DEFAULT_CONFIG
        config == IF useDefault THEN defaults ELSE loaded
        res == Assign(config, Split(key), value)
    IN IF ~res.ok
       THEN [ret |-> Raise("TypeError"), file |-> f, defaults |-> defaults]
       ELSE [ret |-> Return([t |-> "bool", b |-> TRUE]),
             file |-> FileOf(yaml_dump(res.v)),
             defaults |-> IF useDefault THEN res.v ELSE defaults]

\* create_default_config: the file after it.
create_default_config(defaults) == FileOf(yaml_dump(defaults))

----------------------------------------------------------------------------
(* query_context.  where_clause is None or the caller's filter on the      *)
(* source_type column of the context table.  The vector search orders the  *)
(* rows by distance to the query embedding (rows at the same distance stay *)
(* in table order).  hybrid tells whether the query builder of the backend *)
(* has a hybrid method; the order a hybrid query returns is the backend's. *)
(* query_context hands the configured method to the backend as it is; what *)
(* the backend does with a name it does not know is the backend's too: it  *)
(* may raise or rank.                                                      *)

DefaultLimit == 10

NoWhere == [t |-> "None"]
WhereSourceType(ty) == [t |-> "where", column |-> "source_type", value |-> ty]

Filter(table, where_clause) ==
    IF where_clause.t = "None" THEN table
    ELSE SelectSeq(table, LAMBDA r : r.source_type = where_clause.value)

Distance(e, q) == IF e >= q THEN e - q ELSE q - e

\* r put into the ranked sequence s, after every row that is not farther.
RECURSIVE Insert(_, _, _)
Insert(s, r, q) ==
    IF s = <<>> THEN <<r>>
    ELSE IF Distance(r.embedding, q) < Distance(Head(s).embedding, q) THEN <<r>> \o s
    ELSE <<Head(s)>> \o Insert(Tail(s), r, q)

RECURSIVE VectorSearch(_, _)
VectorSearch(table, q) ==
    IF table = <<>> THEN <<>>
    ELSE Insert(VectorSearch(SubSeq(table, 1, Len(table) - 1), q), table[Len(table)], q)

Limit(rows, limit) == SubSeq(rows, 1, IF Len(rows) < limit THEN Len(rows) ELSE limit)

\* d.get(key, default) on a value: AttributeError unless d is a dict.
DictGet(d, key, default) ==
    IF d.t # "dict" THEN [ok |-> FALSE]
    ELSE Ok(IF key \in DOMAIN d.m THEN d.m[key] ELSE default)

\* config.get("reranking", {}).get("method", "rrf") on what get_config_value() returned
RerankingMethod(config) ==
    LET reranking == DictGet(config, "reranking", EmptyDict)
    IN IF ~reranking.ok THEN [ok |-> FALSE]
       ELSE DictGet(reranking.v, "method", Str("rrf"))

\* The orders in which a hybrid query may return the candidates.
HybridOrders(rows) ==
    {[i \in 1..Len(rows) |-> rows[p[i]]] : p \in Permutations(1..Len(rows))}

\* The fusion methods the backend knows.
KnownFusionMethods == {Str("rrf")}

\* query.hybrid(..., fusion_method=method).limit(limit) on the candidates.
Hybrid(candidates, method, limit) ==
    {Return([t |-> "list", rows |-> Limit(rows, limit), fusion_method |-> method])
        : rows \in HybridOrders(candidates)}
    \cup (IF method \in KnownFusionMethods THEN {} ELSE {Raise("ValueError")})

\* query_context that reads the configuration before it looks for hybrid.
query_context_config_first(ctx, f, query_embedding, limit, where_clause, hybrid) ==
    LET candidates == VectorSearch(Filter(ctx, where_clause), query_embedding)
        config == get_config_value(f, NoKey)
        method == RerankingMethod(config.val)
    IN IF ~method.ok THEN {Raise("AttributeError")}
       ELSE IF ~hybrid
            THEN {Return([t |-> "list", rows |-> Limit(candidates, limit)])}
            ELSE Hybrid(candidates, method.v, limit)

\* The outcomes of query_context: what it may return or raise.
query_context(ctx, f, query_embedding, limit, where_clause, hybrid) ==
    LET candidates == VectorSearch(Filter(ctx, where_clause), query_embedding)
    IN IF ~hybrid
       THEN {Return([t |-> "list", rows |-> Limit(candidates, limit)])}
       ELSE LET config == get_config_value(f, NoKey)
                method == RerankingMethod(config.val)
            IN IF ~method.ok THEN {Raise("AttributeError")}
               ELSE Hybrid(candidates, method.v, limit)

----------------------------------------------------------------------------
(* The calls, one action each. *)

Called(op, arg, ret) == [op |-> op, arg |-> arg, ret |-> ret]

AddSource(source_info) ==
    LET res == add_source(sources, source_info)
    IN /\ Len(res.table) <= MaxSources
       /\ sources' = res.table
       /\ last' = Called("add_source", source_info,
                         IF res.raised THEN Raise(res.exc) ELSE Return(None))
       /\ UNCHANGED <<context, file, DEFAULT_CONFIG, calls>>

AddChunks(chunks) ==
    /\ Len(context) + Len(chunks) <= MaxChunks
    /\ context' = add_chunks(context, chunks)
    /\ last' = Called("add_chunks", chunks, Return(None))
    /\ UNCHANGED <<sources, file, DEFAULT_CONFIG, calls>>

RemoveSource(source_id) ==
    LET res == remove_source(sources, context, source_id)
    IN /\ sources' = res.sources
       /\ context' = res.context
       /\ last' = Called("remove_source", source_id,
                         IF res.raised THEN Raise(res.exc) ELSE Return(None))
       /\ UNCHANGED <<file, DEFAULT_CONFIG, calls>>

ListSources ==
    /\ last' = Called("list_sources", None, Return(list_sources(sources)))
    /\ UNCHANGED <<sources, context, file, DEFAULT_CONFIG, calls>>

GetSource(source_id) ==
    /\ last' = Called("get_source", source_id, get_source(sources, source_id))
    /\ UNCHANGED <<sources, context, file, DEFAULT_CONFIG, calls>>

GetDbStats ==
    /\ last' = Called("get_db_stats", None, Return(get_db_stats(sources, context)))
    /\ UNCHANGED <<sources, context, file, DEFAULT_CONFIG, calls>>

QueryContext(query_embedding, limit, where_clause, hybrid) ==
    /\ \E ret \in query_context(context, file, query_embedding, limit,
                                where_clause, hybrid) :
          last' = Called("query_context",
                         [query_embedding |-> query_embedding, limit |-> limit,
                          where_clause |-> where_clause, hybrid |-> hybrid],
                         ret)
    /\ UNCHANGED <<sources, context, file, DEFAULT_CONFIG, calls>>

CreateDefaultConfig ==
    /\ file' = create_default_config(DEFAULT_CONFIG)
    /\ last' = Called("create_default_config", None, Return(None))
    /\ UNCHANGED <<sources, context, DEFAULT_CONFIG, calls>>

GetConfigValue(key) ==
    /\ last' = Called("get_config_value", key, get_config_value(file, key))
    /\ UNCHANGED <<sources, context, file, DEFAULT_CONFIG, calls>>

SetConfigValue(key, value) ==
    LET res == set_config_value(file, DEFAULT_CONFIG, key, value)
    IN /\ file' = res.file
       /\ DEFAULT_CONFIG' = res.defaults
       /\ last' = Called("set_config_value", [key |-> key, value |-> value], res.ret)
       /\ UNCHANGED <<sources, context, calls>>

----------------------------------------------------------------------------
(* Inputs. *)

\* The callers of one process; a caller that is in no call is Idle.
Callers == {1, 2}
Idle == [pc |-> "idle"]

SourceTypes == {"file", "web"}

MetaDict == Dict(Str("k") :> Str("v"))                 \* {"k": "v"}

\* The batches of add_chunks: one or two of the given chunks.
Batches(chunks) == UNION {[1..n -> chunks] : n \in 1..2}

InitWith(f) ==
    /\ sources = <<>>
    /\ context = <<>>
    /\ file = f
    /\ DEFAULT_CONFIG = DefaultConfig
    /\ last = Called("init", None, Return(None))
    /\ calls = [c \in Callers |-> Idle]

----------------------------------------------------------------------------
(* The store: add_source, add_chunks, remove_source and the reads of the   *)
(* sources table, called one at a time on one DotLoreDB after              *)
(* `dotlore init` wrote the default configuration.                         *)

SourceIds == {"a", "b", "a'", "a''"}

SourceInfos ==
    [source_id : SourceIds, source_type : SourceTypes, metadata : {MetaDict}]
Chunks == [source_id : SourceIds, source_type : {"file"}, embedding : {1}]

Init == InitWith(create_default_config(DefaultConfig))

Next ==
    \/ \E source_info \in SourceInfos : AddSource(source_info)
    \/ \E chunks \in Batches(Chunks) : AddChunks(chunks)
    \/ \E source_id \in SourceIds : RemoveSource(source_id)
    \/ ListSources
    \/ \E source_id \in SourceIds : GetSource(source_id)
    \/ GetDbStats

Spec == Init /\ [][Next]_vars

----------------------------------------------------------------------------
(* Properties of the store. *)

\* The number of sources rows whose source_id is id.
Count(id) == Len(SelectSeq(sources, LAMBDA r : r.source_id = id))

\* C1: after any sequence of add_source, add_chunks and remove_source calls
\* the sources table holds at most one row per source_id; right after an
\* add_source(S) that returned it holds exactly one row with S.source_id;
\* and an add_source(S) repeated with the same content leaves the length of
\* list_sources() as it was.
C1_OneRecordPerSourceId ==
    /\ [](/\ \A id \in SourceIds : Count(id) <= 1
          /\ (last.op = "add_source" /\ ~last.ret.raised)
                => Count(last.arg.source_id) = 1)
    /\ [][(/\ last.op = "add_source" /\ ~last.ret.raised
           /\ last'.op = "add_source" /\ last'.arg = last.arg)
             => Len(list_sources(sources').rows) = Len(list_sources(sources).rows)]_vars

\* C2: in every reachable state every context row has a source_id for which
\* the sources table holds a row.
C2_NoOrphanChunk ==
    \A i \in 1..Len(context) :
        \E j \in 1..Len(sources) : sources[j].source_id = context[i].source_id

\* C3: when remove_source(id) is called on a source that add_source stored
\* (and to which add_chunks may have added chunks) and returns, no context
\* row has that source_id, get_db_stats counts none, and get_source(id)
\* returns None.
C3_CascadeDelete ==
    [][(/\ last'.op = "remove_source" /\ ~last'.ret.raised
        /\ \E j \in 1..Len(sources) : sources[j].source_id = last'.arg)
          => /\ \A i \in 1..Len(context') : context'[i].source_id # last'.arg
             /\ get_db_stats(sources', context').chunks_count
                   = Len(SelectSeq(context', LAMBDA r : r.source_id # last'.arg))
             /\ get_source(sources', last'.arg) = Return(None)]_vars

\* C8: after any sequence of add_source and remove_source calls the
\* sources_count of get_db_stats() equals the length of list_sources(),
\* whichever of the two is called.
C8_StatsMatchList ==
    /\ get_db_stats(sources, context).sources_count = Len(list_sources(sources).rows)
    /\ last.op = "get_db_stats"
          => last.ret.val.sources_count = Len(list_sources(sources).rows)
    /\ last.op = "list_sources"
          => Len(last.ret.val.rows) = get_db_stats(sources, context).sources_count

\* get_db_stats was called on a store that holds two sources and a chunk.
C8_Witness ==
    /\ last.op = "get_db_stats"
    /\ last.ret.val.sources_count = 2
    /\ last.ret.val.chunks_count = 1

----------------------------------------------------------------------------
(* Queries: one source id, chunks at two embeddings, and a store that was  *)
(* opened with or without a configuration file.                            *)

QuerySourceInfos ==
    [source_id : {"a"}, source_type : SourceTypes, metadata : {MetaDict}]
QueryChunks == [source_id : {"a"}, source_type : SourceTypes, embedding : {1, 2}]

Limits == {1, DefaultLimit}
WhereClauses == {NoWhere} \cup {WhereSourceType(ty) : ty \in SourceTypes}

InitQuery ==
    \E f \in {AbsentFile, create_default_config(DefaultConfig)} : InitWith(f)

NextQuery ==
    \/ \E source_info \in QuerySourceInfos : AddSource(source_info)
    \/ \E chunks \in Batches(QueryChunks) : AddChunks(chunks)
    \/ RemoveSource("a")
    \/ \E q \in {1, 2}, limit \in Limits, w \in WhereClauses, hybrid \in BOOLEAN :
          QueryContext(q, limit, w, hybrid)

SpecQuery == InitQuery /\ [][NextQuery]_vars

\* C5: query_context with the filter source_type = 'file' never returns a
\* chunk whose owning source (the sources row with the chunk's source_id) has
\* another source_type.
C5_FilterByOwnerType ==
    (/\ last.op = "query_context" /\ ~last.ret.raised
     /\ last.arg.where_clause = WhereSourceType("file"))
       => \A i \in 1..Len(last.ret.val.rows) :
             \A j \in 1..Len(sources) :
                sources[j].source_id = last.ret.val.rows[i].source_id
                   => sources[j].source_type = "file"

----------------------------------------------------------------------------
(* Metadata: sources written with a dict or a str as metadata, then read.  *)

MetaValues ==
    { MetaDict,                                   \* {"k": "v"}
      EmptyDict,                                  \* {}
      Dict(PyInt(1) :> Str("v")),                 \* {1: "v"}
      Text(<<JsonText("x")>>),                    \* "x", no JSON
      Text(<<>>),                                 \* ""
      Text(json_dumps(MetaDict.m)) }              \* '{"k": "v"}'

MetaSourceInfos ==
    [source_id : {"a", "b"}, source_type : {"file"}, metadata : MetaValues]

InitMeta == InitWith(create_default_config(DefaultConfig))

NextMeta ==
    \/ \E source_info \in MetaSourceInfos : AddSource(source_info)
    \/ \E source_id \in {"a", "b"} : RemoveSource(source_id)
    \/ \E source_id \in {"a", "b"} : GetSource(source_id)
    \/ ListSources

SpecMeta == InitMeta /\ [][NextMeta]_vars

\* The metadata of the rows with source_id id in what a read returned.
ReadMetadata(ret, id) ==
    IF ret.val.t = "source" THEN {ret.val.row.metadata}
    ELSE IF ret.val.t = "list"
         THEN {ret.val.rows[i].metadata :
                  i \in {n \in 1..Len(ret.val.rows) : ret.val.rows[n].source_id = id}}
    ELSE {}

\* C10: a read (get_source or list_sources) that follows add_source(S) does
\* not fail and returns for S a metadata equal to S.metadata when that is a
\* dict, and the stored string itself when that is a str that does not
\* decode.
C10_MetadataRoundTrip ==
    [][(/\ last.op = "add_source" /\ ~last.ret.raised
        /\ \/ last'.op = "list_sources"
           \/ last'.op = "get_source" /\ last'.arg = last.arg.source_id)
          => /\ ~last'.ret.raised
             /\ \A m \in ReadMetadata(last'.ret, last.arg.source_id) :
                   /\ last.arg.metadata.t = "dict" => m = last.arg.metadata
                   /\ (/\ last.arg.metadata.t = "text"
                       /\ ~json_loads(last.arg.metadata.toks).ok)
                         => m = last.arg.metadata]_vars

----------------------------------------------------------------------------
(* The configuration: create_default_config, get_config_value and          *)
(* set_config_value on a file that is absent, was left empty by an editor  *)
(* (no content, or the empty mapping {}), or holds the defaults.           *)

ConfigKeys ==
    { "reranking.method",            \* a key of the defaults
      "reranking.nope",              \* a missing key of an existing level
      "new.level",                   \* a missing level
      "retrieval.chunk_size.x",      \* through the int 1000
      "embedding.provider.open",     \* through the str "openai", a part of it
      "embedding.provider.x" }       \* through the str "openai", no part of it

ConfigValues == {Str("linear"), Str("7")}

ConfigFiles ==
    { AbsentFile, FileOf(YamlEmpty), FileOf(YamlMap(<<>>)),
      create_default_config(DefaultConfig) }

InitConfig == \E f \in ConfigFiles : InitWith(f)

NextConfig ==
    \/ CreateDefaultConfig
    \/ \E key \in {NoKey} \cup {Str(k) : k \in ConfigKeys} : GetConfigValue(key)
    \/ \E key \in ConfigKeys, value \in ConfigValues : SetConfigValue(key, value)

SpecConfig == InitConfig /\ [][NextConfig]_vars

\* C4: set_config_value(k, v) succeeds for every dotted key path k, and a
\* get_config_value(k) that follows it returns v.
C4_SetThenGet ==
    /\ [](last.op = "set_config_value" => last.ret = Return([t |-> "bool", b |-> TRUE]))
    /\ [][(/\ last.op = "set_config_value"
           /\ last'.op = "get_config_value" /\ last'.arg = Str(last.arg.key))
             => last'.ret = Return(last.arg.value)]_vars

\* The levels of the path parts exist in the value v, each in a mapping.
RECURSIVE HasPath(_, _)
HasPath(v, parts) ==
    \/ parts = <<>>
    \/ /\ v.t = "dict"
       /\ Head(parts) \in DOMAIN v.m
       /\ HasPath(v.m[Head(parts)], Tail(parts))

\* C6: get_config_value(k) never raises, and returns None when some level
\* of the path k is missing from the stored document.
C6_GetNeverRaises ==
    last.op = "get_config_value"
       => /\ ~last.ret.raised
          /\ (last.arg.t = "str" /\ ~HasPath(load_config(file), Split(last.arg.s)))
                => last.ret = Return(None)

\* C7: a get_config_value on a document that exists but is empty or lacks
\* the key never returns what the same call returns when no document exists.
C7_AbsentIsDistinct ==
    (/\ last.op = "get_config_value"
     /\ file.exists
     /\ \/ ~Truthy(load_config(file))
        \/ last.arg.t = "str" /\ ~HasPath(load_config(file), Split(last.arg.s)))
       => last.ret # get_config_value(AbsentFile, last.arg)

\* The documents d and e are equal at every key path other than parts and
\* the levels that lead to it.
RECURSIVE SameExcept(_, _, _)
SameExcept(d, e, parts) ==
    \/ parts = <<>>
    \/ d.t # "dict"
    \/ /\ e.t = "dict"
       /\ DOMAIN e.m \ {Head(parts)} = DOMAIN d.m \ {Head(parts)}
       /\ \A k \in DOMAIN d.m \ {Head(parts)} : e.m[k] = d.m[k]
       /\ Head(parts) \in DOMAIN d.m
             => /\ Head(parts) \in DOMAIN e.m
                /\ SameExcept(d.m[Head(parts)], e.m[Head(parts)], Tail(parts))

\* The document a file holds; a file without content holds no key.
Document(f) == IF load_config(f).t = "dict" THEN load_config(f) ELSE EmptyDict

\* C9: set_config_value(k, v) on an existing document D, then a reload,
\* gives a document equal to D at every key path other than k.
C9_SetChangesOneKey ==
    [][(last'.op = "set_config_value" /\ file.exists)
          => SameExcept(Document(file), Document(file'), Split(last'.arg.key))]_vars

----------------------------------------------------------------------------
(* Fusion: queries on a store whose configuration file is absent, empty,   *)
(* the defaults, or lacks the reranking section or its method key, and     *)
(* whose reranking.method is set with set_config_value.                    *)

FusionChunks == [source_id : {"a"}, source_type : {"file"}, embedding : {1, 2}]

FusionFiles ==
    { AbsentFile, FileOf(YamlEmpty), FileOf(YamlMap(<<>>)),
      create_default_config(DefaultConfig),
      FileOf(yaml_dump(Dict("embedding" :> Dict("provider" :> Str("openai"))))),
      FileOf(yaml_dump(Dict("reranking" :> EmptyDict))) }

InitFusion == \E f \in FusionFiles : InitWith(f)

NextFusion ==
    \/ \E chunks \in Batches(FusionChunks) : AddChunks(chunks)
    \/ \E value \in {Str("linear"), Str("rrf")} :
          SetConfigValue("reranking.method", value)
    \/ \E q \in {1, 2}, limit \in Limits, w \in WhereClauses, hybrid \in BOOLEAN :
          QueryContext(q, limit, w, hybrid)

SpecFusion == InitFusion /\ [][NextFusion]_vars

\* reranking.method as the file has it; None when there is none.
ConfiguredMethod(f) ==
    LET got == get_config_value(f, Str("reranking.method"))
    IN IF got.raised THEN None ELSE got.val

\* C11: when the backend has hybrid search and the configured
\* reranking.method is not a known fusion method, or there is none, the
\* query fails and returns no results; no default method is used instead.
C11_UnknownMethodRejected ==
    (/\ last.op = "query_context" /\ last.arg.hybrid
     /\ ConfiguredMethod(file) \notin KnownFusionMethods)
       => last.ret.raised

\* The rows of a sequence, each with the number of times it occurs.
BagOf(rows) ==
    [r \in {rows[i] : i \in 1..Len(rows)} |->
        Cardinality({i \in 1..Len(rows) : rows[i] = r})]

\* C12: when the backend has no hybrid search, query_context does not raise
\* and returns the pure vector ranking cut to limit, whatever the
\* configuration file holds: the rows are matching rows of the context table
\* in order of distance to the query, as many as limit allows, and no row
\* left out is nearer than a row returned.
C12_VectorRankingWithoutHybrid ==
    (last.op = "query_context" /\ ~last.arg.hybrid)
       => /\ ~last.ret.raised
          /\ "fusion_method" \notin DOMAIN last.ret.val
          /\ LET rows == last.ret.val.rows
                 q == last.arg.query_embedding
                 matching == Filter(context, last.arg.where_clause)
                 rest == BagOf(matching) (-) BagOf(rows)
             IN /\ Len(rows) = IF Len(matching) < last.arg.limit
                               THEN Len(matching) ELSE last.arg.limit
                /\ BagOf(rows) \sqsubseteq BagOf(matching)
                /\ \A i, j \in 1..Len(rows) :
                      i < j => Distance(rows[i].embedding, q)
                                  <= Distance(rows[j].embedding, q)
                /\ \A r \in BagToSet(rest) : \A i \in 1..Len(rows) :
                      Distance(rows[i].embedding, q) <= Distance(r.embedding, q)

\* A query without hybrid, on a file whose reranking.method is unknown,
\* returns the nearer of two chunks, which is the second of the table.
C12_Witness ==
    /\ last.op = "query_context" /\ ~last.arg.hybrid /\ ~last.ret.raised
    /\ ConfiguredMethod(file) = Str("linear")
    /\ last.arg.limit = 1
    /\ Len(context) = 2
    /\ context[1] # context[2]
    /\ last.ret.val.rows = <<context[2]>>

\* C17: when the backend has hybrid search and the configuration file is
\* absent or empty, or has no reranking section or no method key in it,
\* query_context does not raise: it runs the query with fusion method "rrf"
\* and returns its results.
C17_DefaultMethodWhenUnconfigured ==
    (/\ last.op = "query_context" /\ last.arg.hybrid
     /\ ConfiguredMethod(file) = None)
       => /\ ~last.ret.raised
          /\ last.ret.val.fusion_method = Str("rrf")

----------------------------------------------------------------------------
(* Frame of remove_source, and of set_config_value on the defaults.        *)

\* The rows of a table whose source_id is not id, in table order.
Others(table, id) == SelectSeq(table, LAMBDA r : r.source_id # id)

\* C15: remove_source(id), for every id (one with a single quote or one
\* without a record too), leaves every sources row and every context row
\* with another source_id as it was; when no row has source_id = id, both
\* tables are left as they were.
C15_RemoveTouchesOnlyItsId ==
    [][last'.op = "remove_source"
          => /\ Others(sources', last'.arg) = Others(sources, last'.arg)
             /\ Others(context', last'.arg) = Others(context, last'.arg)
             /\ (Others(sources, last'.arg) = sources
                 /\ Others(context, last'.arg) = context)
                   => (sources' = sources /\ context' = context)]_vars

\* C16: set_config_value never changes the built-in default document, and
\* create_default_config writes that document whatever set_config_value
\* calls came before it.
C16_DefaultsNeverModified ==
    /\ DEFAULT_CONFIG = DefaultConfig
    /\ last.op = "create_default_config"
          => file = create_default_config(DefaultConfig)

----------------------------------------------------------------------------
(* The statements of add_source and remove_source as steps of a caller:    *)
(* each table operation is one step, and the steps of two callers of one   *)
(* process may interleave.                                                 *)

\* The row add_source makes of source_info.
SourceRow(source_info) ==
    [source_id |-> source_info.source_id,
     source_type |-> source_info.source_type,
     metadata |-> IF source_info.metadata.t = "dict"
                  THEN json_dumps(source_info.metadata.m)
                  ELSE source_info.metadata.toks]

\* add_source, the existence check: existing = ...search().where(...).to_pandas()
AddSourceSearch(c, source_info) ==
    LET lit == SourceIdFilter(source_info.source_id)
    IN /\ calls[c] = Idle
       /\ IF ~lit.ok
          THEN /\ last' = Called("add_source", source_info, Raise("ValueError"))
               /\ UNCHANGED calls
          ELSE /\ calls' = [calls EXCEPT ![c] =
                              [pc |-> IF Len(Matching(sources, lit)) > 0
                                      THEN "delete" ELSE "add",
                               op |-> "add_source", arg |-> source_info]]
               /\ UNCHANGED last
       /\ UNCHANGED <<sources, context, file, DEFAULT_CONFIG>>

\* add_source, if len(existing) > 0: sources_table.delete(...)
AddSourceDelete(c) ==
    /\ calls[c].pc = "delete"
    /\ sources' = NotMatching(sources, SourceIdFilter(calls[c].arg.source_id))
    /\ calls' = [calls EXCEPT ![c].pc = "add"]
    /\ UNCHANGED <<context, file, DEFAULT_CONFIG, last>>

\* add_source, sources_table.add([source_info]), and the return
AddSourceAdd(c) ==
    /\ calls[c].pc = "add"
    /\ Len(sources) < MaxSources
    /\ sources' = Append(sources, SourceRow(calls[c].arg))
    /\ calls' = [calls EXCEPT ![c] = Idle]
    /\ last' = Called("add_source", calls[c].arg, Return(None))
    /\ UNCHANGED <<context, file, DEFAULT_CONFIG>>

\* A first delete made on the sources table instead.
remove_source_first_on_sources(srcs, ctx, lit) ==
    [sources |-> NotMatching(srcs, lit), context |-> ctx]

\* remove_source, the first delete: context_table.delete(...)
remove_source_first(srcs, ctx, lit) ==
    [sources |-> srcs, context |-> NotMatching(ctx, lit)]

\* remove_source, the second delete: sources_table.delete(...)
remove_source_second(srcs, ctx, lit) ==
    [sources |-> NotMatching(srcs, lit), context |-> ctx]

RemoveSourceFirst(c, source_id) ==
    LET lit == SourceIdFilter(source_id)
    IN /\ calls[c] = Idle
       /\ IF ~lit.ok
          THEN /\ last' = Called("remove_source", source_id, Raise("ValueError"))
               /\ UNCHANGED <<sources, context, calls>>
          ELSE /\ sources' = remove_source_first(sources, context, lit).sources
               /\ context' = remove_source_first(sources, context, lit).context
               /\ calls' = [calls EXCEPT ![c] =
                              [pc |-> "second", op |-> "remove_source",
                               arg |-> source_id]]
               /\ UNCHANGED last
       /\ UNCHANGED <<file, DEFAULT_CONFIG>>

RemoveSourceSecond(c) ==
    LET lit == SourceIdFilter(calls[c].arg)
    IN /\ calls[c].pc = "second"
       /\ sources' = remove_source_second(sources, context, lit).sources
       /\ context' = remove_source_second(sources, context, lit).context
       /\ calls' = [calls EXCEPT ![c] = Idle]
       /\ last' = Called("remove_source", calls[c].arg, Return(None))
       /\ UNCHANGED <<file, DEFAULT_CONFIG>>

\* remove_source is interrupted between its two deletes: the second delete
\* is not made.
RemoveSourceInterrupted(c) ==
    /\ calls[c].pc = "second"
    /\ calls' = [calls EXCEPT ![c] = Idle]
    /\ last' = Called("remove_source", calls[c].arg, Raise("KeyboardInterrupt"))
    /\ UNCHANGED <<sources, context, file, DEFAULT_CONFIG>>

----------------------------------------------------------------------------
(* Concurrent: two callers of one process add sources with one source_id.  *)

ConcurrentSourceInfos ==
    [source_id : {"a"}, source_type : SourceTypes, metadata : {MetaDict}]

InitConcurrent == InitWith(create_default_config(DefaultConfig))

NextConcurrent ==
    \E c \in Callers :
       \/ \E source_info \in ConcurrentSourceInfos : AddSourceSearch(c, source_info)
       \/ AddSourceDelete(c)
       \/ AddSourceAdd(c)

SpecConcurrent == InitConcurrent /\ [][NextConcurrent]_vars

\* C13: when the steps of two add_source calls for one source_id (existence
\* check, delete of the old row, insert of the new row) interleave, the
\* sources table does not hold two rows with that source_id once both calls
\* have returned.
C13_NoDuplicateAfterConcurrentAdds ==
    (\A c \in Callers : calls[c] = Idle)
       => \A id \in {"a"} : Count(id) <= 1

----------------------------------------------------------------------------
(* Removal: one caller adds sources and chunks and removes sources, the    *)
(* removal in its two steps, between which it may be interrupted.          *)

RemovalIds == {"a", "a''"}
RemovalSourceInfos ==
    [source_id : RemovalIds, source_type : {"file"}, metadata : {MetaDict}]
RemovalChunks == [source_id : RemovalIds, source_type : {"file"}, embedding : {1}]

InitRemoval == InitWith(create_default_config(DefaultConfig))

NextRemoval ==
    \/ /\ calls[1] = Idle
       /\ \E source_info \in RemovalSourceInfos : AddSource(source_info)
    \/ /\ calls[1] = Idle
       /\ \E chunks \in Batches(RemovalChunks) : AddChunks(chunks)
    \/ \E source_id \in RemovalIds \cup {"a'"} : RemoveSourceFirst(1, source_id)
    \/ RemoveSourceSecond(1)
    \/ RemoveSourceInterrupted(1)

SpecRemoval == InitRemoval /\ [][NextRemoval]_vars

\* The id of the remove_source call that caller c is in before or after a step.
Removing(c, id) ==
    \/ calls[c].pc = "second" /\ calls[c].arg = id
    \/ calls'[c].pc = "second" /\ calls'[c].arg = id

\* C14: remove_source(id) deletes the chunks of id no later than the sources
\* row of id: after every step of the call, also between its two deletes
\* where it may be interrupted, if the sources row of id that was there
\* is gone then no context row has source_id = id.
C14_ChunksDeletedFirst ==
    [][\A c \in Callers : \A id \in RemovalIds \cup {"a'"} :
          (/\ Removing(c, id)
           /\ Count(id) > 0
           /\ \A j \in 1..Len(sources') : sources'[j].source_id # id)
             => \A i \in 1..Len(context') : context'[i].source_id # id]_vars

\* remove_source("a") is between its two deletes: the chunk that add_chunks
\* stored for "a" is deleted and the sources row of "a" is still there.
C14_Witness ==
    /\ calls[1].pc = "second" /\ calls[1].arg = "a"
    /\ Count("a") = 1
    /\ last.op = "add_chunks" /\ last.arg[1].source_id = "a"
    /\ \A i \in 1..Len(context) : context[i].source_id # "a"

====
